---- MODULE Spec2Model ----
(***************************************************************************)
(* Model of api/instagram-token.js: the Instagram token manager.           *)
(*                                                                         *)
(* State: the Vercel KV store, the Instagram provider (which tokens its    *)
(* identity-check accepts), the wall clock read by Date.now(), and the     *)
(* serverless invocations in flight.  Every await of the code (kv.get,     *)
(* kv.set, axios.get) is one step of an invocation; the synchronous code   *)
(* between two awaits belongs to the step that precedes it.                *)
(***************************************************************************)
EXTENDS Integers, Sequences, FiniteSets, TLC

VARIABLES store, valid, now, inv, prev, nreq, lastRef

vars == <<store, valid, now, inv, prev, nreq, lastRef>>

----------------------------------------------------------------------------
(* Bounds of the model *)

\* Date.now() readings range over 1..MaxClock
MaxClock == 2

\* serverless invocations that may overlap in SpecConc
MaxCalls == 2

\* requests received in one behaviour
MaxRequests == 2

----------------------------------------------------------------------------
(* Strings: website ids are sequences of characters, so that toUpperCase   *)
(* and toLowerCase are computed and not assumed.                           *)

LowerChars == <<"a", "b", "g">>

UpperChars == <<"A", "B", "G">>

IndexIn(seq, ch) ==
    IF \E i \in DOMAIN seq : seq[i] = ch
    THEN CHOOSE i \in DOMAIN seq : seq[i] = ch
    ELSE 0

UpperChar(ch) ==
    IF IndexIn(LowerChars, ch) > 0 THEN UpperChars[IndexIn(LowerChars, ch)] ELSE ch

LowerChar(ch) ==
    IF IndexIn(UpperChars, ch) > 0 THEN LowerChars[IndexIn(UpperChars, ch)] ELSE ch

toUpperCase(s) == [i \in DOMAIN s |-> UpperChar(s[i])]

toLowerCase(s) == [i \in DOMAIN s |-> LowerChar(s[i])]

\* req.query.websiteId absent
NoId == << >>

\* null / undefined token
Null == "null"

\* parseInt(null): no usable refresh date
NoDate == 0

----------------------------------------------------------------------------
(* Environment and inputs *)

\* process.env entries INITIAL_INSTAGRAM_TOKEN_<suffix>, in key order
EnvVars ==
    << [suffix |-> <<"A">>, value |-> "FA"],
       [suffix |-> <<"B">>, value |-> "FB"] >>

\* process.env[`INITIAL_INSTAGRAM_TOKEN_${suffix}`]
EnvLookup(suffix) ==
    IF \E i \in DOMAIN EnvVars : EnvVars[i].suffix = suffix
    THEN EnvVars[CHOOSE i \in DOMAIN EnvVars : EnvVars[i].suffix = suffix].value
    ELSE Null

\* tokens the provider's refresh endpoint may hand out
RefreshTokens == {"T1", "T2"}

Tokens == {EnvVars[i].value : i \in DOMAIN EnvVars} \cup RefreshTokens

\* websiteId query values of on-demand requests (NoId: parameter missing)
QueryIds == {NoId, <<"a">>, <<"A">>, <<"g">>}

\* every id that may appear as a store key suffix
StoreIds == {<<"a">>, <<"A">>, <<"b">>, <<"g">>}

Methods == {"GET", "POST", "OPTIONS"}

Urls == {"/api/cron", "/api/instagram-token"}

TokenKey(id) == <<"instagram_token_", id>>

DateKey(id) == <<"token_refresh_date_", id>>

Keys == {TokenKey(id) : id \in StoreIds} \cup {DateKey(id) : id \in StoreIds}

EmptyStore == [k \in Keys |-> IF k[1] = "instagram_token_" THEN Null ELSE NoDate]

----------------------------------------------------------------------------
(* Invocations.  kind/method/websiteId are the request; pc is the await    *)
(* the invocation is suspended at; token, newToken, upd, currentTime, cont *)
(* and idx are the locals of the functions on its stack; status, body,    *)
(* resToken and lastRefresh are the response.  The remaining fields are    *)
(* history: what the invocation has done so far; accVal, accRef and        *)
(* accSteps count the identity-checks, refresh calls and awaits of the     *)
(* website being processed, checked is the set of websites whose token     *)
(* was put to validateToken, seeded the set of websites whose record was   *)
(* created from the environment, preRefTok and preRefDate the website's    *)
(* store entries when the first validateToken returned, refFailed whether  *)
(* the refresh call made for the website threw.                            *)

Idle ==
    [ kind |-> "none", method |-> "none", websiteId |-> NoId, pc |-> "idle",
      token |-> Null, newToken |-> Null, upd |-> Null, currentTime |-> NoDate,
      cont |-> "none", idx |-> 0,
      status |-> 0, body |-> "none", resToken |-> Null, lastRefresh |-> NoDate,
      validated |-> {}, nval |-> 0, nref |-> 0, nreads |-> 0, nwrites |-> 0,
      stored |-> {}, path |-> "none", preTok |-> Null, preDate |-> NoDate,
      visited |-> << >>, threw |-> {}, nrun |-> 0, threwAt |-> "none",
      checked |-> {}, seeded |-> {}, preRefTok |-> Null, preRefDate |-> NoDate,
      accVal |-> 0, accRef |-> 0, accSteps |-> 0, refFailed |-> FALSE ]

Ended(r) == r.pc \in {"idle", "done", "crashed"}

\* res.status(status).json(body) / res.json(body) / res.status(200).end()
Respond(r, status, body) ==
    [r EXCEPT !.pc = "done", !.status = status, !.body = body]

\* variant: the environment lookup is dropped
isValidWebsiteId_AlwaysTrue(websiteId) == TRUE

isValidWebsiteId(websiteId) ==
    EnvLookup(toUpperCase(websiteId)) # Null

\* Object.keys(process.env).filter(...).map(... .toLowerCase())
WebsiteIds == [i \in DOMAIN EnvVars |-> toLowerCase(EnvVars[i].suffix)]

\* variant: a run in which a website failed is reported as failed
LoopNext_ReportFailures(r) ==
    IF r.idx < Len(WebsiteIds)
    THEN [r EXCEPT !.idx = r.idx + 1,
                   !.websiteId = WebsiteIds[r.idx + 1],
                   !.visited = Append(r.visited, WebsiteIds[r.idx + 1]),
                   !.accVal = 0, !.accRef = 0, !.accSteps = 0,
                   !.refFailed = FALSE,
                   !.pc = "getStored"]
    ELSE IF r.threw = {}
         THEN Respond(r, 200, "All tokens refreshed successfully")
         ELSE Respond(r, 500, "Failed to refresh tokens")

\* the for loop of refreshAllTokens reaches the end of one iteration
LoopNext(r) ==
    IF r.idx < Len(WebsiteIds)
    THEN [r EXCEPT !.idx = r.idx + 1,
                   !.websiteId = WebsiteIds[r.idx + 1],
                   !.visited = Append(r.visited, WebsiteIds[r.idx + 1]),
                   !.accVal = 0, !.accRef = 0, !.accSteps = 0,
                   !.refFailed = FALSE,
                   !.pc = "getStored"]
    ELSE Respond(r, 200, "All tokens refreshed successfully")

\* variant: the try block encloses the loop, so the first error ends the run
CatchAccount_Abort(r) ==
    Respond([r EXCEPT !.threw = @ \cup {r.websiteId}], 500, "Failed to refresh tokens")

\* catch (error) of the per-website try block of refreshAllTokens
CatchAccount(r) ==
    LoopNext([r EXCEPT !.threw = @ \cup {r.websiteId}])

\* catch (error) of apiHandler
ApiCatch(r) ==
    Respond(r, 500, "Failed to manage Instagram token")

\* variant: a failed refresh call falls back to the initial token
Throw_RefreshFallsBack(r, at) ==
    IF at = "refresh" /\ EnvLookup(toUpperCase(r.websiteId)) # Null
    THEN [r EXCEPT !.upd = EnvLookup(toUpperCase(r.websiteId)),
                   !.cont = "fallback", !.pc = "setTok"]
    ELSE IF r.kind = "api"
         THEN ApiCatch([r EXCEPT !.threwAt = at])
         ELSE CatchAccount([r EXCEPT !.threwAt = at])

\* an error is thrown at `at`: control goes to the enclosing catch
Throw(r, at) ==
    CASE r.kind = "api"  -> ApiCatch([r EXCEPT !.threwAt = at])
      [] r.kind = "cron" -> CatchAccount([r EXCEPT !.threwAt = at])
      [] r.kind = "call" -> [r EXCEPT !.threwAt = at, !.pc = "done"]

\* updateStoredToken(websiteId, tok) is entered; cont is where its caller resumes
updateStoredToken(r, tok, cont) ==
    [r EXCEPT !.upd = tok, !.cont = cont, !.pc = "setTok"]

\* validateAndRefreshToken returns tok to its caller
Return(r, tok, path) ==
    CASE r.kind = "api"  -> [r EXCEPT !.token = tok, !.path = path, !.pc = "getDate"]
      [] r.kind = "cron" -> LoopNext([r EXCEPT !.path = path])
      [] r.kind = "call" -> [r EXCEPT !.resToken = tok, !.path = path, !.pc = "done"]

\* apiHandler up to its first await
apiHandler(r) ==
    IF r.method = "OPTIONS" THEN Respond(r, 200, "empty")
    ELSE IF r.websiteId = NoId THEN Respond(r, 400, "WebsiteID is required")
    ELSE IF ~isValidWebsiteId(r.websiteId) THEN Respond(r, 400, "Invalid websiteID")
    ELSE [r EXCEPT !.pc = "getStored"]

\* refreshAllTokens up to its first await
refreshAllTokens(r) ==
    LoopNext([r EXCEPT !.nrun = r.nrun + 1, !.idx = 0])

\* variant: the method test is dropped
cronHandler_AnyMethod(r) == refreshAllTokens(r)

\* cronHandler up to its first await
cronHandler(r) ==
    IF r.method = "POST"
    THEN refreshAllTokens(r)
    ELSE Respond(r, 405, "Method not allowed")

\* module.exports: the router
Route(url, r) ==
    IF url = "/api/cron"
    THEN cronHandler([r EXCEPT !.kind = "cron", !.websiteId = NoId])
    ELSE apiHandler([r EXCEPT !.kind = "api"])

\* what is kept of an invocation once its slot is taken by the next one
Summary(r) ==
    [ kind |-> r.kind, websiteId |-> r.websiteId, body |-> r.body ]

----------------------------------------------------------------------------
(* Steps of an invocation: what each await resolves to, and the            *)
(* synchronous code that follows it.                                       *)

\* variant: the token is written back even when it was found
AfterGetStored_AlwaysStore(r, token) ==
    LET t == IF token # Null THEN token ELSE EnvLookup(toUpperCase(r.websiteId))
    IN  updateStoredToken([r EXCEPT !.token = t,
                                    !.seeded = IF token = Null
                                               THEN @ \cup {r.websiteId} ELSE @],
                          t, IF r.kind = "api" THEN "validate1" ELSE "loop")

\* variant: a token found in the store is served without validateToken
AfterGetStored_TrustStored(r, token) ==
    IF token # Null
    THEN Return(r, token, "valid")
    ELSE LET initialToken == EnvLookup(toUpperCase(r.websiteId))
             s == [r EXCEPT !.seeded = @ \cup {r.websiteId}]
         IN  updateStoredToken([s EXCEPT !.token = initialToken], initialToken,
                               IF r.kind = "api" THEN "validate1" ELSE "loop")

\* variant: the initial token is validated before it is written
AfterGetStored_ValidateFirst(r, token) ==
    IF token # Null
    THEN [r EXCEPT !.token = token, !.pc = "validate1"]
    ELSE LET initialToken == EnvLookup(toUpperCase(r.websiteId))
             s == [r EXCEPT !.seeded = @ \cup {r.websiteId}]
         IN  IF r.kind = "api"
             THEN [s EXCEPT !.token = initialToken, !.pc = "validate1"]
             ELSE updateStoredToken(s, initialToken, "loop")

\* variant: refreshAllTokens too validates the token it has just seeded
AfterGetStored_SeedThenValidate(r, token) ==
    IF token # Null
    THEN [r EXCEPT !.token = token, !.pc = "validate1"]
    ELSE LET initialToken == EnvLookup(toUpperCase(r.websiteId))
         IN  updateStoredToken([r EXCEPT !.token = initialToken,
                                         !.seeded = @ \cup {r.websiteId}],
                               initialToken, "validate1")

\* getStoredToken returned token (null when the key is absent)
AfterGetStored(r, token) ==
    IF token # Null
    THEN [r EXCEPT !.token = token, !.pc = "validate1"]
    ELSE LET initialToken == EnvLookup(toUpperCase(r.websiteId))
             s == [r EXCEPT !.seeded = @ \cup {r.websiteId}]
         IN  IF r.kind = "api"
             THEN IF initialToken = Null
                  THEN Throw(r, "config")
                  ELSE updateStoredToken([s EXCEPT !.token = initialToken],
                                         initialToken, "validate1")
             ELSE updateStoredToken(s, initialToken, "loop")

\* the first validateToken of validateAndRefreshToken returned isValid
AfterValidate1(r, isValid) ==
    IF isValid
    THEN Return(r, r.token, "valid")
    ELSE [r EXCEPT !.pc = "refresh"]

\* variant: the fallback token is returned without being stored
AfterValidate2_NoFallbackWrite(r, isNewTokenValid) ==
    IF isNewTokenValid
    THEN Return(r, r.newToken, "refreshed")
    ELSE Return(r, EnvLookup(toUpperCase(r.websiteId)), "fallback")

\* variant: a refreshed token that fails validation is refreshed again
AfterValidate2_Retry(r, isNewTokenValid) ==
    IF isNewTokenValid
    THEN Return(r, r.newToken, "refreshed")
    ELSE [r EXCEPT !.pc = "refresh"]

\* the second validateToken of validateAndRefreshToken returned isNewTokenValid
AfterValidate2(r, isNewTokenValid) ==
    IF isNewTokenValid
    THEN Return(r, r.newToken, "refreshed")
    ELSE LET initialToken == EnvLookup(toUpperCase(r.websiteId))
         IN  IF initialToken = Null
             THEN Throw(r, "config")
             ELSE updateStoredToken(r, initialToken, "fallback")

\* variant: the refreshed token is not stored
AfterRefresh_NoStore(r, t) ==
    [r EXCEPT !.newToken = t, !.pc = "validate2"]

\* axios.get(.../refresh_access_token) resolved with access_token t
AfterRefresh(r, t) ==
    updateStoredToken(r, t, "validate2")

\* updateStoredToken returned: its caller resumes
AfterUpdate(r) ==
    CASE r.cont = "validate1" -> [r EXCEPT !.pc = "validate1"]
      [] r.cont = "loop"      -> LoopNext(r)
      [] r.cont = "validate2" -> [r EXCEPT !.newToken = r.upd, !.pc = "validate2"]
      [] r.cont = "fallback"  -> Return(r, r.upd, "fallback")

\* invocation r resumes from an await
Resume(r) == [r EXCEPT !.accSteps = @ + 1]

\* module.exports is invoked in slot c with a request drawn from the given sets
Receive(c, urls, methods, queries) ==
    /\ Ended(inv[c])
    /\ nreq < MaxRequests
    /\ nreq' = nreq + 1
    /\ \E url \in urls, method \in methods, q \in queries :
         LET r == [Idle EXCEPT !.method = method, !.websiteId = q,
                               !.preTok = IF q \in StoreIds THEN store[TokenKey(q)] ELSE Null,
                               !.preDate = IF q \in StoreIds THEN store[DateKey(q)] ELSE NoDate]
         IN  inv' = [inv EXCEPT ![c] = Route(url, r)]
    /\ prev' = Summary(inv[c])
    /\ UNCHANGED <<store, valid, now, lastRef>>

\* validateAndRefreshToken(websiteId, currentToken) is called on its own
Call(c) ==
    /\ Ended(inv[c])
    /\ nreq < MaxRequests
    /\ nreq' = nreq + 1
    /\ \E websiteId \in StoreIds, currentToken \in Tokens :
         inv' = [inv EXCEPT ![c] =
                   [Idle EXCEPT !.kind = "call", !.websiteId = websiteId,
                                !.token = currentToken,
                                !.preTok = store[TokenKey(websiteId)],
                                !.preDate = store[DateKey(websiteId)],
                                !.pc = "validate1"]]
    /\ prev' = Summary(inv[c])
    /\ UNCHANGED <<store, valid, now, lastRef>>

\* await kv.get(`instagram_token_${websiteId}`) in getStoredToken
GetStored(c) ==
    /\ inv[c].pc = "getStored"
    /\ LET r == Resume([inv[c] EXCEPT !.nreads = @ + 1])
       IN  \/ inv' = [inv EXCEPT ![c] = AfterGetStored(r, store[TokenKey(r.websiteId)])]
           \/ inv' = [inv EXCEPT ![c] = Throw(r, "kv")]
    /\ UNCHANGED <<store, valid, now, prev, nreq, lastRef>>

\* await kv.set(`instagram_token_${websiteId}`, newToken), then Date.now()
SetTok(c) ==
    /\ inv[c].pc = "setTok"
    /\ LET r == Resume(inv[c])
       IN  \/ /\ store' = [store EXCEPT ![TokenKey(r.websiteId)] = r.upd]
              /\ inv' = [inv EXCEPT ![c] = [r EXCEPT !.nwrites = @ + 1,
                                                     !.stored = @ \cup {r.upd},
                                                     !.currentTime = now,
                                                     !.pc = "setDate"]]
           \/ /\ inv' = [inv EXCEPT ![c] = Throw(r, "kv")]
              /\ UNCHANGED store
    /\ UNCHANGED <<valid, now, prev, nreq, lastRef>>

\* await kv.set(`token_refresh_date_${websiteId}`, currentTime)
SetDate(c) ==
    /\ inv[c].pc = "setDate"
    /\ LET r == Resume(inv[c])
       IN  \/ /\ store' = [store EXCEPT ![DateKey(r.websiteId)] = r.currentTime]
              /\ inv' = [inv EXCEPT ![c] = AfterUpdate([r EXCEPT !.nwrites = @ + 1])]
              /\ lastRef' = IF r.cont = "validate2"
                            THEN [lastRef EXCEPT ![r.websiteId] = r.upd]
                            ELSE lastRef
           \/ /\ inv' = [inv EXCEPT ![c] = Throw(r, "kv")]
              /\ UNCHANGED <<store, lastRef>>
    /\ UNCHANGED <<valid, now, prev, nreq>>

\* validateToken: axios.get(.../me) resolves exactly for the tokens in valid
validateToken(r, token) ==
    [r EXCEPT !.nval = @ + 1, !.accVal = @ + 1,
              !.checked = @ \cup {r.websiteId},
              !.validated = IF token \in valid THEN @ \cup {token} ELSE @]

\* const isValid = await validateToken(websiteId, currentToken)
Validate1(c) ==
    /\ inv[c].pc = "validate1"
    /\ LET r == Resume([inv[c] EXCEPT !.preRefTok = store[TokenKey(inv[c].websiteId)],
                                      !.preRefDate = store[DateKey(inv[c].websiteId)]])
       IN  inv' = [inv EXCEPT ![c] =
                     AfterValidate1(validateToken(r, r.token), r.token \in valid)]
    /\ UNCHANGED <<store, valid, now, prev, nreq, lastRef>>

\* await axios.get(.../refresh_access_token) in refreshToken
Refresh(c) ==
    /\ inv[c].pc = "refresh"
    /\ LET r == Resume([inv[c] EXCEPT !.nref = @ + 1, !.accRef = @ + 1])
       IN  \/ \E t \in RefreshTokens :
                inv' = [inv EXCEPT ![c] = AfterRefresh(r, t)]
           \/ inv' = [inv EXCEPT ![c] = Throw([r EXCEPT !.refFailed = TRUE], "refresh")]
    /\ UNCHANGED <<store, valid, now, prev, nreq, lastRef>>

\* const isNewTokenValid = await validateToken(websiteId, newToken)
Validate2(c) ==
    /\ inv[c].pc = "validate2"
    /\ LET r == Resume(inv[c])
       IN  inv' = [inv EXCEPT ![c] =
                     AfterValidate2(validateToken(r, r.newToken), r.newToken \in valid)]
    /\ UNCHANGED <<store, valid, now, prev, nreq, lastRef>>

\* getLastRefreshDate and the success response of apiHandler;
\* new Date(NaN).toISOString() throws a RangeError
GetDate(c) ==
    /\ inv[c].pc = "getDate"
    /\ LET r == Resume([inv[c] EXCEPT !.nreads = @ + 1])
           refreshDate == store[DateKey(r.websiteId)]
       IN  \/ /\ refreshDate # NoDate
              /\ inv' = [inv EXCEPT ![c] =
                           Respond([r EXCEPT !.resToken = r.token,
                                             !.lastRefresh = refreshDate],
                                   200, "Instagram token retrieved and validated")]
           \/ /\ refreshDate = NoDate
              /\ inv' = [inv EXCEPT ![c] = Throw(r, "date")]
           \/ inv' = [inv EXCEPT ![c] = Throw(r, "kv")]
    /\ UNCHANGED <<store, valid, now, prev, nreq, lastRef>>

\* the platform ends the invocation (time limit, instance loss) at an await
Crash(c) ==
    /\ ~Ended(inv[c])
    /\ inv' = [inv EXCEPT ![c] = [Idle EXCEPT !.pc = "crashed"]]
    /\ UNCHANGED <<store, valid, now, prev, nreq, lastRef>>

\* the wall clock advances
Tick ==
    /\ now < MaxClock
    /\ now' = now + 1
    /\ UNCHANGED <<store, valid, inv, prev, nreq, lastRef>>

----------------------------------------------------------------------------
(* Specifications *)

Slots == 1..MaxCalls

\* a record the system never wrote may sit under an unconfigured id
GhostStore ==
    [EmptyStore EXCEPT ![TokenKey(<<"g">>)] = "T1", ![DateKey(<<"g">>)] = 1]

Init ==
    /\ store \in {EmptyStore, GhostStore}
    /\ valid \in SUBSET Tokens
    /\ now = 1
    /\ inv = [c \in Slots |-> Idle]
    /\ prev = Summary(Idle)
    /\ nreq = 0
    /\ lastRef = [id \in StoreIds |-> Null]

\* any request
Request(c) == Receive(c, Urls, Methods, QueryIds)

\* an on-demand GET for a configured account, in either letter case
Fetch(c) == Receive(c, {"/api/instagram-token"}, {"GET"}, {<<"a">>, <<"A">>})

Await(c) ==
    \/ GetStored(c)
    \/ SetTok(c)
    \/ SetDate(c)
    \/ Validate1(c)
    \/ Refresh(c)
    \/ Validate2(c)
    \/ GetDate(c)

\* one invocation at a time
Next == Request(1) \/ Await(1) \/ Crash(1) \/ Tick

Spec == Init /\ [][Next]_vars

\* invocations overlap
NextConc == (\E c \in Slots : Fetch(c) \/ Await(c)) \/ Tick

InitConc == Init /\ store = EmptyStore

\* validateAndRefreshToken taken alone, one call at a time
NextCall ==
    \/ Call(1)
    \/ Validate1(1) \/ Refresh(1) \/ SetTok(1) \/ SetDate(1) \/ Validate2(1)
    \/ Tick

SpecCall == Init /\ [][NextCall]_vars

SpecConc == InitConc /\ [][NextConc]_vars

----------------------------------------------------------------------------
(* Properties *)

Success == "Instagram token retrieved and validated"

\* validateAndRefreshToken has returned to apiHandler in invocation r
Resolved(r) == r.kind = "api" /\ r.path # "none"

\* the fallback token configured for the account of invocation r
Fallback(r) == EnvLookup(toUpperCase(r.websiteId))

\* C1: every on-demand fetch that answers with success returns a token for
\* which validateToken returned true during that same invocation.
C1_ReturnedTokenWasValidated ==
    \A c \in Slots :
        LET r == inv[c]
        IN  (r.kind = "api" /\ r.pc = "done" /\ r.body = Success)
                => r.resToken \in r.validated

\* C2: when the refresh call fails, or the refreshed token fails
\* re-validation, and a fallback token is configured, the fetch returns the
\* fallback token and the store holds it when the invocation ends (no store
\* call failing).
C2_FallbackOnRefreshFailure ==
    \A c \in Slots :
        LET r == inv[c]
        IN  ( /\ r.kind = "api" /\ r.pc = "done"
              /\ Fallback(r) # Null
              /\ \/ r.threwAt = "refresh"
                 \/ r.threwAt = "none" /\ r.nval = 2 /\ r.newToken \notin valid )
                => /\ r.body = Success
                   /\ r.resToken = Fallback(r)
                   /\ store[TokenKey(r.websiteId)] = Fallback(r)

\* C3: when the token found in the store passes the first identity-check,
\* validateAndRefreshToken returns that very token, the invocation has made
\* no store write, and the store holds what it held when the request came.
C3_ValidTokenReturnedUntouched ==
    \A c \in Slots :
        LET r == inv[c]
        IN  (Resolved(r) /\ r.path = "valid" /\ r.preTok # Null)
                => /\ r.token = r.preTok
                   /\ r.nwrites = 0
                   /\ r.stored = {}
                   /\ store[TokenKey(r.websiteId)] = r.preTok
                   /\ store[DateKey(r.websiteId)] = r.preDate
                   /\ (r.pc = "done" /\ r.body = Success => r.resToken = r.preTok)

C3_Witness ==
    \E c \in Slots :
        LET r == inv[c]
        IN  /\ Resolved(r) /\ r.path = "valid" /\ r.preTok # Null
            /\ r.pc = "done" /\ r.body = Success

\* C4 as stated: stored token invalid, refresh succeeds, the new token is
\* valid: the new token is returned, the store holds it, and the stored
\* timestamp is strictly greater than the one stored before the call.
C4_TimestampStrictlyGreater ==
    \A c \in Slots :
        LET r == inv[c]
        IN  (Resolved(r) /\ r.path = "refreshed")
                => /\ r.token = r.newToken
                   /\ store[TokenKey(r.websiteId)] = r.newToken
                   /\ store[DateKey(r.websiteId)] > r.preDate

\* C4 amended: as above, but the stored timestamp is the Date.now() reading
\* taken by this call's updateStoredToken, which is greater than or equal to
\* the timestamp stored before the call and may equal it.
C4_TimestampNotBefore ==
    \A c \in Slots :
        LET r == inv[c]
        IN  (Resolved(r) /\ r.path = "refreshed")
                => /\ r.token = r.newToken
                   /\ r.newToken \in valid
                   /\ store[TokenKey(r.websiteId)] = r.newToken
                   /\ store[DateKey(r.websiteId)] = r.currentTime
                   /\ store[DateKey(r.websiteId)] >= r.preDate
                   /\ (r.pc = "done" /\ r.body = Success => r.resToken = r.newToken)

C4_Witness ==
    \E c \in Slots :
        LET r == inv[c]
        IN  /\ Resolved(r) /\ r.path = "refreshed"
            /\ r.preTok # Null /\ r.preTok \notin valid
            /\ r.pc = "done" /\ r.body = Success
            /\ r.preDate # NoDate
            /\ store[DateKey(r.websiteId)] = r.preDate

\* the first n elements of sequence seq
Prefix(seq, n) == [i \in 1..n |-> seq[i]]

\* C5: refreshAllTokens runs the per-account step for every enumerated
\* account, in order, whatever threw on the way: while it runs it has
\* entered the steps of the first idx accounts, a POST run always ends with
\* all of them entered and the 200 response, and no step of the run changes
\* a store entry of an account other than the one it is processing.
C5_EveryAccountProcessed ==
    /\ [](\A c \in Slots :
            LET r == inv[c]
            IN  (r.kind = "cron" /\ r.method = "POST" /\ r.pc # "crashed")
                    => /\ r.visited = Prefix(WebsiteIds, r.idx)
                       /\ r.threw \subseteq {r.visited[i] : i \in DOMAIN r.visited}
                       /\ r.pc = "done" =>
                            /\ r.visited = WebsiteIds
                            /\ r.status = 200)
    /\ [][\A c \in Slots : \A k \in Keys :
            (inv[c].kind = "cron" /\ inv'[c].kind = "cron" /\ store'[k] # store[k])
                => k[2] = inv[c].websiteId]_vars

C5_Witness ==
    \E c \in Slots :
        LET r == inv[c]
        IN  /\ r.kind = "cron" /\ r.pc = "done"
            /\ Len(WebsiteIds) >= 2
            /\ r.threw = {WebsiteIds[1]}
            /\ r.visited = WebsiteIds
            /\ store[TokenKey(WebsiteIds[2])] # Null
            /\ store[DateKey(WebsiteIds[2])] # NoDate

\* C6: a second fetch for the same websiteId, right after a fetch that
\* answered with success and with the provider unchanged, passes its first
\* identity-check: it refreshes nothing, writes nothing, and the stored token
\* stays what the first call left.
C6_SecondCallIsQuiet ==
    \A c \in Slots :
        LET r == inv[c]
        IN  ( /\ r.kind = "api" /\ r.method # "OPTIONS"
              /\ prev.kind = "api" /\ prev.body = Success
              /\ prev.websiteId = r.websiteId )
                => /\ r.pc # "refresh"
                   /\ r.nref = 0
                   /\ r.nwrites = 0
                   /\ store[TokenKey(r.websiteId)] = r.preTok

\* C7 as stated: every request to the on-demand entry whose websiteId has no
\* INITIAL_INSTAGRAM_TOKEN_<ID> is answered 400 'Invalid websiteID' and
\* makes no store read, no store write and no provider call.
C7_UnknownAccountAlways400 ==
    \A c \in Slots :
        LET r == inv[c]
        IN  (r.kind = "api" /\ r.websiteId # NoId /\ Fallback(r) = Null)
                => /\ r.pc = "done"
                   /\ r.nreads = 0 /\ r.nwrites = 0 /\ r.nval = 0 /\ r.nref = 0
                   /\ r.status = 400 /\ r.body = "Invalid websiteID"

\* C7 amended: a request to the on-demand entry whose websiteId has no
\* INITIAL_INSTAGRAM_TOKEN_<ID> never reads or writes the store and never
\* calls the provider, whether or not the store holds a record under that
\* id; it is answered 400 'Invalid websiteID' unless its method is OPTIONS,
\* which is answered 200 before the websiteId is looked at.
C7_UnknownAccountRejected ==
    \A c \in Slots :
        LET r == inv[c]
        IN  (r.kind = "api" /\ r.websiteId # NoId /\ Fallback(r) = Null)
                => /\ r.pc = "done"
                   /\ r.nreads = 0 /\ r.nwrites = 0 /\ r.nval = 0 /\ r.nref = 0
                   /\ IF r.method = "OPTIONS"
                      THEN r.status = 200 /\ r.body = "empty"
                      ELSE r.status = 400 /\ r.body = "Invalid websiteID"

C7_Witness ==
    \E c \in Slots :
        LET r == inv[c]
        IN  /\ r.kind = "api" /\ r.method = "GET" /\ r.websiteId = <<"g">>
            /\ Fallback(r) = Null
            /\ store[TokenKey(r.websiteId)] # Null
            /\ r.pc = "done" /\ r.status = 400

\* C8: the store never holds token entries under two ids that differ only
\* in letter case.
C8_OneRecordPerAccount ==
    \A id1, id2 \in StoreIds :
        (id1 # id2 /\ toUpperCase(id1) = toUpperCase(id2))
            => ~(store[TokenKey(id1)] # Null /\ store[TokenKey(id2)] # Null)

\* both overlapping fetches for one websiteId saw an invalid token, got a
\* token from the refresh endpoint, and have answered
BothRefreshed ==
    /\ \A c \in {1, 2} :
          /\ inv[c].kind = "api" /\ inv[c].pc = "done"
          /\ inv[c].nref = 1 /\ inv[c].newToken # Null
    /\ inv[1].websiteId = inv[2].websiteId

\* C9 as stated: once both calls have finished (no store or provider call
\* of theirs having failed), the persisted token is the token obtained by
\* whichever refreshToken completed last, and each call that answered with
\* success returned a token it stored during the call.
C9_LastRefreshWins ==
    (BothRefreshed /\ inv[1].threwAt = "none" /\ inv[2].threwAt = "none")
        => /\ store[TokenKey(inv[1].websiteId)] = lastRef[inv[1].websiteId]
           /\ \A c \in {1, 2} :
                inv[c].body = Success => inv[c].resToken \in inv[c].stored

\* C9 amended: once both calls have finished, the persisted token is one of
\* the tokens the two calls wrote (a refreshed token or the fallback token,
\* whichever token write came last), and each call that answered with
\* success returned a token it stored during the call.
C9_LastWriteWins ==
    BothRefreshed
        => /\ store[TokenKey(inv[1].websiteId)] \in inv[1].stored \cup inv[2].stored
           /\ store[TokenKey(inv[1].websiteId)] \in
                {inv[1].newToken, inv[2].newToken, Fallback(inv[1])}
           /\ \A c \in {1, 2} :
                inv[c].body = Success
                    => /\ inv[c].resToken \in inv[c].stored
                       /\ inv[c].resToken \in {inv[c].newToken, Fallback(inv[c])}

C9_Witness ==
    /\ BothRefreshed
    /\ inv[1].body = Success /\ inv[2].body = Success
    /\ inv[1].newToken # inv[2].newToken
    /\ inv[1].path = "refreshed" /\ inv[2].path = "refreshed"
    /\ store[TokenKey(inv[1].websiteId)] # lastRef[inv[1].websiteId]

\* C10: a request to /api/cron with a method other than POST is answered 405
\* at once, without running refreshAllTokens and without any store or
\* provider call; a POST runs refreshAllTokens exactly once, and has done so
\* when it answers.
C10_CronOnlyOnPost ==
    \A c \in Slots :
        LET r == inv[c]
        IN  r.kind = "cron"
                => IF r.method = "POST"
                   THEN r.nrun = 1 /\ (r.pc = "done" => r.status = 200)
                   ELSE /\ r.pc = "done" /\ r.status = 405
                        /\ r.body = "Method not allowed"
                        /\ r.nrun = 0 /\ r.visited = << >>
                        /\ r.nreads = 0 /\ r.nwrites = 0
                        /\ r.nval = 0 /\ r.nref = 0

C10_Witness ==
    \E c \in Slots :
        LET r == inv[c]
        IN  r.kind = "cron" /\ r.method = "GET" /\ r.pc = "done" /\ r.status = 405

\* the websites whose step of the loop of refreshAllTokens is over
Processed(r) ==
    { r.visited[i] : i \in { j \in 1..Len(r.visited) : j < r.idx \/ r.pc = "done" } }

\* C11 (as stated): when a run of refreshAllTokens has ended, every website
\* it enumerated whose step did not throw had its token put to validateToken
\* during the run, the websites that had no stored record included.
C11_EveryAccountChecked ==
    \A c \in Slots :
        LET r == inv[c]
        IN  r.kind = "cron" /\ r.pc = "done" /\ r.status = 200
                => \A id \in Processed(r) : id \notin r.threw => id \in r.checked

\* C11 (amended): in a run of refreshAllTokens a website that has a stored
\* token is handed to validateAndRefreshToken, so its token is put to
\* validateToken; a website with no stored record is only seeded: its
\* initial token is written (token entry, then date entry), with no
\* validateToken and no refresh call for it in that run, and when its step
\* ends without an error the store holds the initial token.
C11_SeededAccountNotChecked ==
    \A c \in Slots :
        LET r == inv[c]
        IN  r.kind = "cron"
                => /\ \A id \in Processed(r) :
                        id \notin r.threw => (id \in r.checked <=> id \notin r.seeded)
                   /\ r.seeded \cap r.checked = {}
                   /\ r.pc # "done" /\ r.websiteId \in r.seeded
                        => /\ r.accVal = 0 /\ r.accRef = 0
                           /\ r.pc \in {"setTok", "setDate"}
                           /\ r.upd = EnvLookup(toUpperCase(r.websiteId))
                   /\ r.pc = "setDate" /\ r.websiteId \in r.seeded
                        => store[TokenKey(r.websiteId)] = r.upd
                   /\ \A id \in Processed(r) \cap r.seeded :
                        id \notin r.threw
                            => store[TokenKey(id)] = EnvLookup(toUpperCase(id))

C11_Witness ==
    \E c \in Slots :
        LET r == inv[c]
        IN  /\ r.kind = "cron" /\ r.pc = "done" /\ r.status = 200
            /\ r.threw = {}
            /\ <<"a">> \in r.seeded /\ <<"b">> \in r.checked
            /\ EnvLookup(<<"A">>) \notin valid

C13_BoundedCalls ==
    \A c \in Slots :
        LET r == inv[c]
        IN  /\ r.accVal <= 2 /\ r.accRef <= 1
            /\ r.accRef <= r.accVal
            /\ r.accVal = 2 => r.accRef = 1
            /\ r.accSteps <= IF r.kind = "cron" THEN 8 ELSE 11
            /\ r.kind = "api" => r.nval = r.accVal /\ r.nref = r.accRef
            /\ r.kind = "cron"
                    => /\ r.nval <= 2 * Len(r.visited)
                       /\ r.nref <= Len(r.visited)
                       /\ r.nrun <= 1
            /\ ~Ended(r) => ENABLED Await(c)
            /\ r.kind = "api" /\ r.pc = "done" /\ r.nval > 0
                    => \/ r.path # "none" /\ r.threwAt \in {"none", "kv", "date"}
                       \/ r.path = "none" /\ r.threwAt \in {"kv", "refresh", "config"}

C13_Witness ==
    \E c \in Slots :
        LET r == inv[c]
        IN  /\ r.kind = "cron" /\ r.pc = "done"
            /\ Len(r.visited) = 2 /\ r.nval = 4 /\ r.nref = 2
            /\ r.accSteps = 8

\* C14: a fetch answered with the success response has made at least one
\* validateToken call of its own for the website, besides its two store
\* reads, and when it returns the token it found in the store that token
\* passed this very invocation's validateToken; this holds also when the
\* invocation before it served the same website successfully.
C14_SuccessNeedsOwnCheck ==
    \A c \in Slots :
        LET r == inv[c]
        IN  r.kind = "api" /\ r.body = Success
                => /\ r.nval >= 1
                   /\ r.websiteId \in r.checked
                   /\ r.path = "valid" => r.resToken \in r.validated
                   /\ r.nreads >= 2

C14_Witness ==
    \E c \in Slots :
        LET r == inv[c]
        IN  /\ r.kind = "api" /\ r.body = Success /\ r.nval = 1
            /\ prev.kind = "api" /\ prev.body = Success
            /\ prev.websiteId = r.websiteId
            /\ r.resToken = r.preTok

\* C15: a fetch for a website with no stored token writes the initial token
\* (token entry, then date entry) before its first validateToken; that call
\* is made on the initial token, with the store holding it; and when the
\* initial token is valid the fetch returns it and the store holds it.
C15_SeedBeforeFirstCheck ==
    \A c \in Slots :
        LET r == inv[c]
            initialToken == EnvLookup(toUpperCase(r.websiteId))
        IN  r.kind = "api" /\ r.websiteId \in r.seeded
                => /\ r.pc = "setTok" /\ r.cont = "validate1"
                        => r.nwrites = 0 /\ r.nval = 0 /\ r.upd = initialToken
                   /\ r.pc = "setDate" /\ r.cont = "validate1"
                        => /\ r.nwrites = 1 /\ r.nval = 0
                           /\ store[TokenKey(r.websiteId)] = initialToken
                   /\ r.pc = "validate1"
                        => /\ r.nwrites = 2 /\ r.nval = 0
                           /\ r.token = initialToken
                           /\ store[TokenKey(r.websiteId)] = initialToken
                           /\ store[DateKey(r.websiteId)] = r.currentTime
                   /\ r.nval >= 1
                        => /\ r.nwrites >= 2 /\ initialToken \in r.stored
                           /\ initialToken \in r.validated <=> initialToken \in valid
                   /\ r.path = "valid"
                        => /\ r.token = initialToken /\ initialToken \in valid
                           /\ store[TokenKey(r.websiteId)] = initialToken
                           /\ r.nwrites = 2
                   /\ r.body = Success /\ initialToken \in valid
                        => r.resToken = initialToken /\ r.path = "valid"

C15_Witness ==
    \E c \in Slots :
        LET r == inv[c]
        IN  /\ r.kind = "api" /\ r.websiteId \in r.seeded
            /\ r.preTok = Null
            /\ r.body = Success /\ r.path = "valid"
            /\ r.resToken = EnvLookup(toUpperCase(r.websiteId))
            /\ store[TokenKey(r.websiteId)] = r.resToken

\* C16: updateStoredToken writes the token entry before the date entry, and
\* after an invocation was ended between the two writes the next fetch for
\* a website whose token is stored has the outcome the token alone decides:
\* once validateAndRefreshToken has returned a token and no store call
\* failed, the fetch answers with the success response and that token,
\* whatever the date entry holds.
C16_TimestampOnlyInformational ==
    \A c \in Slots :
        LET r == inv[c]
        IN  /\ r.pc = "setDate" => store[TokenKey(r.websiteId)] = r.upd
            /\ /\ r.kind = "api" /\ r.pc = "done"
                /\ nreq = 2 /\ prev.kind = "none"
                /\ r.preTok # Null /\ Resolved(r) /\ r.threwAt # "kv"
                    => r.body = Success /\ r.resToken = r.token

\* C17: with one invocation at a time, a fetch that is answered with the
\* success response returns the token the store holds for the website when
\* the answer is sent, whichever way validateAndRefreshToken returned it
\* (stored token valid, refreshed token valid, initial token), and the
\* lastRefresh it reports is the stored date.
C17_ReturnedTokenIsStoredToken ==
    \A c \in Slots :
        LET r == inv[c]
        IN  r.kind = "api"
                => /\ r.body = Success
                        => /\ r.resToken = store[TokenKey(r.websiteId)]
                           /\ r.lastRefresh = store[DateKey(r.websiteId)]
                           /\ r.path \in {"valid", "refreshed", "fallback"}
                   /\ r.pc = "getDate" => r.token = store[TokenKey(r.websiteId)]

C17_Witness ==
    \E c \in Slots :
        LET r == inv[c]
        IN  /\ r.kind = "api" /\ r.body = Success /\ r.path = "fallback"
            /\ r.resToken = store[TokenKey(r.websiteId)]
            /\ r.resToken # r.preTok /\ r.preTok # Null
            /\ r.newToken \in RefreshTokens

\* C18: when validateAndRefreshToken throws 'No valid initial token
\* available' (the refresh call succeeded, the refreshed token failed
\* validateToken, the website has no initial token), the write refreshToken
\* made stays: the store holds the refreshed token, which is not valid,
\* with the date read at that write, and nothing was written after it.
C18_FailedRefreshedTokenStays ==
    \A c \in Slots :
        LET r == inv[c]
        IN  r.kind = "call" /\ r.pc = "done" /\ r.threwAt = "config"
                => /\ r.nref = 1 /\ r.nval = 2 /\ r.path = "none"
                   /\ r.newToken \in RefreshTokens /\ r.newToken \notin valid
                   /\ r.nwrites = 2 /\ r.stored = {r.newToken}
                   /\ store[TokenKey(r.websiteId)] = r.newToken
                   /\ store[DateKey(r.websiteId)] = r.currentTime
                   /\ r.currentTime # NoDate

C18_Witness ==
    \E c \in Slots :
        LET r == inv[c]
        IN  /\ r.kind = "call" /\ r.pc = "done" /\ r.threwAt = "config"
            /\ EnvLookup(toUpperCase(r.websiteId)) = Null
            /\ r.preTok # Null /\ r.preTok # r.newToken
            /\ store[TokenKey(r.websiteId)] = r.newToken

\* C19: a POST to /api/cron is answered only when the loop of
\* refreshAllTokens has gone through every website, and the answer is then
\* 200 'All tokens refreshed successfully' whatever the number of websites
\* whose step threw, all of them included; errors thrown in a website's
\* step never leave the loop, so no cron invocation is answered 500.
C19_CronAnswers200 ==
    \A c \in Slots :
        LET r == inv[c]
        IN  r.kind = "cron"
                => /\ r.status # 500 /\ r.body # "Failed to refresh tokens"
                   /\ r.pc = "done" /\ r.method = "POST"
                        => /\ r.status = 200
                           /\ r.body = "All tokens refreshed successfully"
                           /\ r.visited = WebsiteIds
                           /\ r.threw \subseteq { WebsiteIds[i] : i \in DOMAIN WebsiteIds }
                   /\ r.threw # {} => r.threwAt # "none"

C19_Witness ==
    \E c \in Slots :
        LET r == inv[c]
        IN  /\ r.kind = "cron" /\ r.pc = "done" /\ r.status = 200
            /\ r.body = "All tokens refreshed successfully"
            /\ r.threw = { WebsiteIds[i] : i \in DOMAIN WebsiteIds }
            /\ Cardinality(r.threw) = 2

====
